---- MODULE Spec2Model ----
(***************************************************************************)
(* Client runtime of the battle-royale game: the frame loop (render), the  *)
(* local predictor (handleKeys), the snapshot store (socket 'update'),     *)
(* pointer capture, and the mobile bridge (message listener).              *)
(*                                                                         *)
(* Numbers are fixed-point integers:                                       *)
(*   - lengths in units of 0.02 world units, velocities in units of 0.02   *)
(*     per second, time in whole seconds, so that the literal 0.02 of      *)
(*     client.js:294 is 1 and x += deltaTime * dx stays integral;          *)
(*   - angles in units of 0.01 rad; mouse and touch deltas in units of     *)
(*     100 px, so that 0.0001 rad/px is 1 angle unit per delta unit;       *)
(*   - sines and cosines in thousandths.                                   *)
(***************************************************************************)
EXTENDS Integers, Sequences, FiniteSets

(***************************************************************************)
(* Bounds of the model.                                                    *)
(***************************************************************************)
MaxDelta == 2
MaxDownCount == 2
MaxActions == 2
MaxCoord == 1000
AngleCap == 700
MaxEvents == 2
MaxStills == 2

(***************************************************************************)
(* Program constants.                                                      *)
(***************************************************************************)
PlayerStartY == 10000
InitAngle == 10
MoveDyPenalty == 1
ZoomSensitivity == 1
Sensitivity == 10
BridgeSensitivity == 20
PitchMargin == 10
JoystickThreshold == 3
RecoilPitchMax == 2
RecoilYawHalf == 1
Pi == 314
TwoPi == 628
HalfPi == 157

\* Constants of the repository declared outside the files at hand.
LOBBY_ID == 0
GRAVITY == 2000
JUMP_POWER == 5000
PLAYER_HALF_HEIGHT == 100
RUN_SPEED == 1000

Abs(n) == IF n < 0 THEN -n ELSE n
Min(a, b) == IF a < b THEN a ELSE b
Max(a, b) == IF a < b THEN b ELSE a

(***************************************************************************)
(* Math.sin and Math.cos, in thousandths, of an angle in units of 0.01 rad *)
(* (Bhaskara's rational approximation on a half turn, extended by          *)
(* symmetry).                                                              *)
(***************************************************************************)
SinHalfTurn(a) == (1000 * 16 * a * (Pi - a)) \div (5 * Pi * Pi - 4 * a * (Pi - a))
Sin(a) ==
    LET m == a % TwoPi
    IN  IF m <= Pi THEN SinHalfTurn(m) ELSE -SinHalfTurn(m - Pi)
Cos(a) == Sin(a + HalfPi)

\* Truncation toward zero, as a product of floats scaled back to integers.
Scaled(n) == IF n < 0 THEN -((-n) \div 1000) ELSE n \div 1000

\* normalizeRadians: wraps an angle into [-Pi, Pi).
normalizeRadians(a) == ((a + Pi) % TwoPi) - Pi

\* vec3.rotateY(tempVec, forward, origin, yaw): the forward axis turned by yaw.
rotateY(yaw) == [x |-> Sin(yaw), z |-> Cos(yaw)]

(***************************************************************************)
(* Keys.                                                                   *)
(***************************************************************************)
Keys == {"UP", "DOWN", "LEFT", "RIGHT", "W", "S", "A", "D", "Z", "Q",
         "SPACE", "M", "ESCAPE"}
KeyUpState == [down |-> FALSE, downCount |-> 0]

\* updateKeys: per-frame bookkeeping; downCount counts the frames a key has
\* been sampled down, so downCount = 1 marks the frame of a fresh press.
updateKeys(k) ==
    [c \in Keys |->
        IF k[c].down
        THEN [down |-> TRUE, downCount |-> Min(k[c].downCount + 1, MaxDownCount)]
        ELSE [down |-> FALSE, downCount |-> 0]]

(***************************************************************************)
(* Snapshots delivered by the server.                                      *)
(***************************************************************************)
NoGameState ==
    [id |-> 0, gameId |-> LOBBY_ID, seed |-> 0, started |-> FALSE, alive |-> FALSE,
     aliveCount |-> 0, hasEntities |-> FALSE, entities |-> <<>>]
Snapshots ==
    { [id |-> 1, gameId |-> LOBBY_ID, seed |-> 1, started |-> FALSE, alive |-> FALSE,
       aliveCount |-> 0, hasEntities |-> FALSE, entities |-> <<>>],
      [id |-> 2, gameId |-> 1, seed |-> 1, started |-> FALSE, alive |-> TRUE,
       aliveCount |-> 2, hasEntities |-> TRUE, entities |-> <<"e1">>],
      [id |-> 3, gameId |-> 1, seed |-> 1, started |-> TRUE, alive |-> TRUE,
       aliveCount |-> 2, hasEntities |-> TRUE, entities |-> <<"e1", "e2">>],
      [id |-> 4, gameId |-> 2, seed |-> 2, started |-> TRUE, alive |-> FALSE,
       aliveCount |-> 1, hasEntities |-> TRUE, entities |-> <<"e2">>] }

\* ServerGameState accessors.
isStarted(gs) == gs.started
isCurrentPlayerAlive(gs) == gs.alive
getAliveCount(gs) == gs.aliveCount

\* GameMap.getY: ground height of the map built from a seed, at (x, z).
getY(seed, x, z) == 50 * (((Abs(x) + Abs(z)) \div 1000 + seed) % 3)

NoMap == [loaded |-> FALSE, seed |-> 0]
NoBuffers == [made |-> FALSE, items |-> <<>>]
localEntities == <<>>

VARIABLES
    gameState,        \* the stored snapshot, NoGameState before the first update
    gameMap,          \* NoMap, or the map built by initGame
    staticBuffers,    \* NoBuffers, or the static buffer set
    dynamicBuffers,   \* NoBuffers, or the dynamic buffer set and its content
    player,           \* the local entity
    keys,             \* the intent table: key -> [down, downCount]
    mapOpen,
    zoom,
    pointerLocked,    \* client.js:18
    mouseListener,    \* handleMouseMoveEvent is registered on document
    lockElement,      \* document.pointerLockElement === overlayCanvas
    lockRequested,    \* a requestPointerLock() the platform has not answered
    joystick,         \* the bridge's joystickActive / Angle / Force
    isMobile,
    windowPlayer,     \* window.player is defined in this build
    windowKeys,       \* window.keys is defined in this build
    rafPending,       \* a requestAnimationFrame(render) callback is scheduled
    held,             \* the keys physically held (keydown seen, keyup not yet)
    holdJumps,        \* jump impulses applied since SPACE was last pressed
    count,            \* pointer movements and bridge messages handled, and
                      \* zero-length frames run, so far
    last              \* what the last handler did

vars == <<gameState, gameMap, staticBuffers, dynamicBuffers, player, keys, mapOpen,
          zoom, pointerLocked, mouseListener, lockElement, lockRequested, joystick,
          isMobile, windowPlayer, windowKeys, rafPending, held, holdJumps, count,
          last>>

NoView == [gameId |-> LOBBY_ID, hasEntities |-> FALSE, entities |-> <<>>, started |-> FALSE]
Quiet ==
    [op |-> "init", dt |-> 0, mapLoaded |-> FALSE, sawMatch |-> FALSE, threw |-> FALSE,
     hud |-> FALSE, clamped |-> FALSE, jumped |-> FALSE, glLog |-> <<>>,
     view |-> NoView, arg |-> 0, y0 |-> 0, dy0 |-> 0,
     yaw0 |-> 0, pitch0 |-> 0, dX |-> 0, dY |-> 0, button |-> "none"]
NoCount == [events |-> 0, stills |-> 0]
Did(name) == [Quiet EXCEPT !.op = name]

InitPlayer ==
    [x |-> 0, y |-> PlayerStartY, z |-> 0, dx |-> 0, dy |-> 0, dz |-> 0,
     yaw |-> InitAngle, pitch |-> InitAngle, actions |-> <<>>]
InitJoystick == [active |-> FALSE, angle |-> 0, force |-> 0]

\* The state after the scripts have run, for a build with the given globals.
Loaded(wp, wk) ==
    /\ gameState = NoGameState
    /\ gameMap = NoMap
    /\ staticBuffers = NoBuffers
    /\ dynamicBuffers = NoBuffers
    /\ player = InitPlayer
    /\ keys = [c \in Keys |-> KeyUpState]
    /\ mapOpen = FALSE
    /\ zoom = FALSE
    /\ pointerLocked = FALSE
    /\ mouseListener = FALSE
    /\ lockElement = FALSE
    /\ lockRequested = FALSE
    /\ joystick = InitJoystick
    /\ isMobile = FALSE
    /\ windowPlayer = wp
    /\ windowKeys = wk
    /\ rafPending = TRUE
    /\ held = {}
    /\ holdJumps = 0
    /\ count = NoCount
    /\ last = Quiet

Init == \E wp \in BOOLEAN, wk \in BOOLEAN : Loaded(wp, wk)


(***************************************************************************)
(* The local predictor.                                                    *)
(***************************************************************************)
Forward(k) == k["UP"].down \/ k["W"].down \/ k["Z"].down
Backward(k) == k["DOWN"].down \/ k["S"].down
Left(k) == k["LEFT"].down \/ k["A"].down \/ k["Q"].down
Right(k) == k["RIGHT"].down \/ k["D"].down

\* client.js:288-310: the four movement tests in source order; each one that
\* fires overwrites dx and dz and takes 0.02 off dy.
MoveVelocity_sum(k, yaw, dy) ==
    LET t == rotateY(yaw)
        a == IF Forward(k) THEN 1 ELSE 0
        b == IF Backward(k) THEN 1 ELSE 0
        l == IF Left(k) THEN 1 ELSE 0
        r == IF Right(k) THEN 1 ELSE 0
    IN  [dx |-> (a - b) * Scaled(RUN_SPEED * t.x) + (r - l) * Scaled(RUN_SPEED * t.z),
         dz |-> (a - b) * Scaled(RUN_SPEED * t.z) + (l - r) * Scaled(RUN_SPEED * t.x),
         dy |-> dy - (a + b + l + r) * MoveDyPenalty]
MoveVelocity(k, yaw, dy) ==
    LET t == rotateY(yaw)
        v0 == [dx |-> 0, dz |-> 0, dy |-> dy]
        v1 == IF Forward(k)
              THEN [dx |-> Scaled(RUN_SPEED * t.x), dz |-> Scaled(RUN_SPEED * t.z),
                    dy |-> v0.dy - MoveDyPenalty]
              ELSE v0
        v2 == IF Backward(k)
              THEN [dx |-> Scaled(-RUN_SPEED * t.x), dz |-> Scaled(-RUN_SPEED * t.z),
                    dy |-> v1.dy - MoveDyPenalty]
              ELSE v1
        v3 == IF Left(k)
              THEN [dx |-> Scaled(-RUN_SPEED * t.z), dz |-> Scaled(RUN_SPEED * t.x),
                    dy |-> v2.dy - MoveDyPenalty]
              ELSE v2
        v4 == IF Right(k)
              THEN [dx |-> Scaled(RUN_SPEED * t.z), dz |-> Scaled(-RUN_SPEED * t.x),
                    dy |-> v3.dy - MoveDyPenalty]
              ELSE v3
    IN  v4

\* client.js:311-317
MapToggle(k, mo) ==
    IF k["M"].downCount = 1 \/ (mo /\ k["ESCAPE"].downCount = 1) THEN ~mo ELSE mo

\* client.js:330
JumpPressed_held(k) == k["SPACE"].down
JumpPressed(k) == k["SPACE"].downCount = 1

\* client.js:325-333: the ground clamp and the jump impulse.
GroundClamp_keepVelocity(y, dy, groundY, jump) ==
    IF y < groundY + PLAYER_HALF_HEIGHT
    THEN [y |-> groundY + PLAYER_HALF_HEIGHT, dy |-> IF jump THEN JUMP_POWER ELSE dy,
          clamped |-> TRUE, jumped |-> jump]
    ELSE [y |-> y, dy |-> dy, clamped |-> FALSE, jumped |-> FALSE]
GroundClamp(y, dy, groundY, jump) ==
    IF y < groundY + PLAYER_HALF_HEIGHT
    THEN [y |-> groundY + PLAYER_HALF_HEIGHT, dy |-> IF jump THEN JUMP_POWER ELSE 0,
          clamped |-> TRUE, jumped |-> jump]
    ELSE [y |-> y, dy |-> dy, clamped |-> FALSE, jumped |-> FALSE]

\* client.js:283-333: the predictor step with a map.
Predict_noGravity(p, k, mo, seed, dt) ==
    LET k1 == updateKeys(k)
        v  == MoveVelocity(k1, p.yaw, p.dy)
        x1 == p.x + dt * v.dx
        z1 == p.z + dt * v.dz
        y1 == p.y + dt * v.dy
        g  == GroundClamp(y1, v.dy, getY(seed, x1, z1), JumpPressed(k1))
    IN  [player |-> [p EXCEPT !.x = x1, !.z = z1, !.dx = v.dx, !.dz = v.dz,
                              !.y = g.y, !.dy = g.dy],
         keys |-> k1, mapOpen |-> MapToggle(k1, mo),
         clamped |-> g.clamped, jumped |-> g.jumped]
Predict_oldGround(p, k, mo, seed, dt) ==
    LET k1 == updateKeys(k)
        v  == MoveVelocity(k1, p.yaw, p.dy)
        x1 == p.x + dt * v.dx
        z1 == p.z + dt * v.dz
        dy1 == v.dy - dt * GRAVITY
        y1 == p.y + dt * dy1
        g  == GroundClamp(y1, dy1, getY(seed, p.x, p.z), JumpPressed(k1))
    IN  [player |-> [p EXCEPT !.x = x1, !.z = z1, !.dx = v.dx, !.dz = v.dz,
                              !.y = g.y, !.dy = g.dy],
         keys |-> k1, mapOpen |-> MapToggle(k1, mo),
         clamped |-> g.clamped, jumped |-> g.jumped]
Predict(p, k, mo, seed, dt) ==
    LET k1 == updateKeys(k)
        v  == MoveVelocity(k1, p.yaw, p.dy)
        x1 == p.x + dt * v.dx
        z1 == p.z + dt * v.dz
        dy1 == v.dy - dt * GRAVITY
        y1 == p.y + dt * dy1
        g  == GroundClamp(y1, dy1, getY(seed, x1, z1), JumpPressed(k1))
    IN  [player |-> [p EXCEPT !.x = x1, !.z = z1, !.dx = v.dx, !.dz = v.dz,
                              !.y = g.y, !.dy = g.dy],
         keys |-> k1, mapOpen |-> MapToggle(k1, mo),
         clamped |-> g.clamped, jumped |-> g.jumped]

\* client.js:278-334
handleKeys_noGuard(p, k, mo, gm, dt) == Predict(p, k, mo, gm.seed, dt)
handleKeys(p, k, mo, gm, dt) ==
    IF ~gm.loaded
    THEN [player |-> p, keys |-> k, mapOpen |-> mo, clamped |-> FALSE, jumped |-> FALSE]
    ELSE Predict(p, k, mo, gm.seed, dt)

(***************************************************************************)
(* The frame body.                                                         *)
(***************************************************************************)
\* client.js:215-235: what a frame that renders a match does to the dynamic
\* buffer set, and the order of its buffer and draw calls.
RenderMatch_noReset(gs, buf) ==
    LET b1 == IF gs.hasEntities THEN buf.items \o gs.entities ELSE buf.items
        b2 == b1 \o localEntities
        b3 == IF isStarted(gs) THEN Append(b2, "wall") ELSE b2
    IN  [items |-> b3,
         log |-> (IF gs.hasEntities THEN gs.entities ELSE <<>>) \o localEntities
                 \o (IF isStarted(gs) THEN <<"wall">> ELSE <<>>)
                 \o <<"upload", "static", "dynamic">>]
RenderMatch(gs, buf) ==
    LET b0 == <<>>
        b1 == IF gs.hasEntities THEN b0 \o gs.entities ELSE b0
        b2 == b1 \o localEntities
        b3 == IF isStarted(gs) THEN Append(b2, "wall") ELSE b2
    IN  [items |-> b3,
         log |-> <<"reset">> \o (IF gs.hasEntities THEN gs.entities ELSE <<>>)
                 \o localEntities
                 \o (IF isStarted(gs) THEN <<"wall">> ELSE <<>>)
                 \o <<"upload", "static", "dynamic">>]

\* The time between two frames, in seconds.
DeltaTimes == 1..MaxDelta

\* client.js:207-240: one frame, D being the times since the last one that
\* the platform may report.  A frame that finds a match snapshot without
\* buffer sets throws at dynamicBuffers.resetBuffers() (or, with a dynamic set
\* only, at staticBuffers.render), after handleKeys has run and before drawHud
\* and requestAnimationFrame.
RenderAt(D) ==
    /\ rafPending
    /\ \E dt \in D :
        LET hk == handleKeys(player, keys, mapOpen, gameMap, dt)
            inMatch == gameState # NoGameState /\ gameState.gameId # LOBBY_ID
            early == inMatch /\ ~dynamicBuffers.made
            late == inMatch /\ dynamicBuffers.made /\ ~staticBuffers.made
            rm == RenderMatch(gameState, dynamicBuffers)
        IN  /\ Abs(hk.player.x) <= MaxCoord
            /\ Abs(hk.player.z) <= MaxCoord
            /\ dt = 0 => count.stills < MaxStills
            /\ count' = IF dt = 0 THEN [count EXCEPT !.stills = @ + 1] ELSE count
            /\ player' = hk.player
            /\ keys' = hk.keys
            /\ mapOpen' = hk.mapOpen
            /\ holdJumps' = IF hk.jumped THEN Min(holdJumps + 1, 2) ELSE holdJumps
            /\ dynamicBuffers' = IF inMatch /\ ~early
                                 THEN [made |-> TRUE, items |-> rm.items]
                                 ELSE dynamicBuffers
            /\ rafPending' = ~(early \/ late)
            /\ last' = [op |-> "render", dt |-> dt, mapLoaded |-> gameMap.loaded,
                        sawMatch |-> inMatch, threw |-> early \/ late,
                        hud |-> ~(early \/ late),
                        clamped |-> hk.clamped, jumped |-> hk.jumped,
                        glLog |-> IF inMatch /\ ~early /\ ~late THEN rm.log ELSE <<>>,
                        view |-> IF inMatch /\ ~early
                                 THEN [gameId |-> gameState.gameId,
                                       hasEntities |-> gameState.hasEntities,
                                       entities |-> gameState.entities,
                                       started |-> gameState.started]
                                 ELSE [NoView EXCEPT !.gameId = gameState.gameId],
                        arg |-> 0, y0 |-> player.y, dy0 |-> player.dy,
                        yaw0 |-> 0, pitch0 |-> 0, dX |-> 0, dY |-> 0,
                        button |-> "none"]
    /\ UNCHANGED <<gameState, gameMap, staticBuffers, zoom, pointerLocked,
                   mouseListener, lockElement, lockRequested, joystick, isMobile,
                   windowPlayer, windowKeys, held>>

Render == RenderAt(DeltaTimes)

(***************************************************************************)
(* The snapshot store and the match state.                                 *)
(***************************************************************************)
\* client.js:88-91
OnUpdate_inPlace(gs, new) ==
    IF gs = NoGameState THEN new
    ELSE [new EXCEPT !.hasEntities = gs.hasEntities, !.entities = gs.entities]
OnUpdate(gs, new) == new

UpdateFrom(S) ==
    /\ \E s \in S :
        /\ gameState' = OnUpdate(gameState, s)
        /\ last' = [Did("update") EXCEPT !.arg = s.id]
    /\ UNCHANGED <<gameMap, staticBuffers, dynamicBuffers, player, keys, mapOpen, zoom,
                   pointerLocked, mouseListener, lockElement, lockRequested, joystick,
                   isMobile, windowPlayer, windowKeys, rafPending, held, holdJumps, count>>

Update == UpdateFrom(Snapshots)

\* client.js:182-200.  Nothing in the files at hand calls initGame; it is a
\* global function, run by whoever calls it.  Before the first snapshot it
\* throws at gameState.seed and changes nothing.
InitGame ==
    /\ gameState # NoGameState
    /\ gameMap' = [loaded |-> TRUE, seed |-> gameState.seed]
    /\ staticBuffers' = [made |-> TRUE, items |-> <<"world">>]
    /\ dynamicBuffers' = [made |-> TRUE, items |-> <<>>]
    /\ last' = Did("initGame")
    /\ UNCHANGED <<gameState, player, keys, mapOpen, zoom, pointerLocked,
                   mouseListener, lockElement, lockRequested, joystick, isMobile,
                   windowPlayer, windowKeys, rafPending, held, holdJumps, count>>


(***************************************************************************)
(* Client actions.                                                         *)
(***************************************************************************)
\* client.js:126-137: the action entity carries the position and the aim.
createClientEvent_fresh(eventType, p) ==
    [p EXCEPT !.actions = <<[type |-> eventType, x |-> p.x, y |-> p.y, z |-> p.z,
                             pitch |-> p.pitch, yaw |-> p.yaw]>>]
createClientEvent(eventType, p) ==
    [p EXCEPT !.actions = Append(@, [type |-> eventType, x |-> p.x, y |-> p.y, z |-> p.z,
                                     pitch |-> p.pitch, yaw |-> p.yaw])]

\* client.js:106-120; rp and ry are the two Math.random() recoil terms.
shoot(p, gs, rp, ry) ==
    IF gs # NoGameState /\ ~isCurrentPlayerAlive(gs)
    THEN p
    ELSE [createClientEvent("SHOOT", p) EXCEPT !.pitch = @ - rp, !.yaw = @ + ry]

\* The bounded queue and angles: a handler that would exceed them is not run.
InBounds(p) ==
    /\ Len(p.actions) <= MaxActions
    /\ Abs(p.yaw) <= AngleCap
    /\ Abs(p.pitch) <= AngleCap

ShootTo(name) ==
    \E rp \in 0..(RecoilPitchMax - 1), ry \in (-RecoilYawHalf)..(RecoilYawHalf - 1) :
        /\ player' = shoot(player, gameState, rp, ry)
        /\ InBounds(player')
        /\ last' = Did(name)

\* window.location.reload(): the page starts over.
Reload ==
    /\ gameState' = NoGameState
    /\ gameMap' = NoMap
    /\ staticBuffers' = NoBuffers
    /\ dynamicBuffers' = NoBuffers
    /\ player' = InitPlayer
    /\ keys' = [c \in Keys |-> KeyUpState]
    /\ mapOpen' = FALSE
    /\ zoom' = FALSE
    /\ pointerLocked' = FALSE
    /\ mouseListener' = FALSE
    /\ lockElement' = FALSE
    /\ lockRequested' = FALSE
    /\ joystick' = InitJoystick
    /\ isMobile' = FALSE
    /\ rafPending' = TRUE
    /\ held' = {}
    /\ holdJumps' = 0
    /\ count' = count
    /\ last' = Did("reload")
    /\ UNCHANGED <<windowPlayer, windowKeys>>

\* client.js:46-86: a left click on the overlay; overJoin and overExit say
\* whether mouseX, mouseY lie on the join button and on the exit button.
Click ==
    \E overJoin \in BOOLEAN, overExit \in BOOLEAN :
        IF gameState = NoGameState
        THEN /\ last' = Did("click")
             /\ UNCHANGED <<gameState, gameMap, staticBuffers, dynamicBuffers, player,
                            keys, mapOpen, zoom, pointerLocked, mouseListener,
                            lockElement, lockRequested, joystick, isMobile,
                            windowPlayer, windowKeys, rafPending, held, holdJumps, count>>
        ELSE IF gameState.gameId = LOBBY_ID
        THEN /\ player' = IF overJoin THEN createClientEvent("JOIN", player) ELSE player
             /\ InBounds(player')
             /\ last' = [Did("click") EXCEPT !.button = IF overJoin THEN "join" ELSE "none"]
             /\ UNCHANGED <<gameState, gameMap, staticBuffers, dynamicBuffers, keys,
                            mapOpen, zoom, pointerLocked, mouseListener, lockElement,
                            lockRequested, joystick, isMobile, windowPlayer,
                            windowKeys, rafPending, held, holdJumps, count>>
        ELSE IF ~isCurrentPlayerAlive(gameState) \/ getAliveCount(gameState) = 1
        THEN IF overExit
             THEN Reload
             ELSE /\ last' = Did("click")
                  /\ UNCHANGED <<gameState, gameMap, staticBuffers, dynamicBuffers,
                                 player, keys, mapOpen, zoom, pointerLocked,
                                 mouseListener, lockElement, lockRequested, joystick,
                                 isMobile, windowPlayer, windowKeys, rafPending,
                                 held, holdJumps, count>>
        ELSE IF mapOpen
        THEN /\ last' = Did("click")
             /\ UNCHANGED <<gameState, gameMap, staticBuffers, dynamicBuffers, player,
                            keys, mapOpen, zoom, pointerLocked, mouseListener,
                            lockElement, lockRequested, joystick, isMobile,
                            windowPlayer, windowKeys, rafPending, held, holdJumps, count>>
        ELSE IF ~pointerLocked
        THEN /\ lockRequested' = TRUE
             /\ last' = Did("click")
             /\ UNCHANGED <<gameState, gameMap, staticBuffers, dynamicBuffers, player,
                            keys, mapOpen, zoom, pointerLocked, mouseListener,
                            lockElement, joystick, isMobile, windowPlayer, windowKeys,
                            rafPending, held, holdJumps, count>>
        ELSE IF isStarted(gameState) /\ isCurrentPlayerAlive(gameState)
        THEN /\ ShootTo("click")
             /\ UNCHANGED <<gameState, gameMap, staticBuffers, dynamicBuffers, keys,
                            mapOpen, zoom, pointerLocked, mouseListener, lockElement,
                            lockRequested, joystick, isMobile, windowPlayer,
                            windowKeys, rafPending, held, holdJumps, count>>
        ELSE /\ last' = Did("click")
             /\ UNCHANGED <<gameState, gameMap, staticBuffers, dynamicBuffers, player,
                            keys, mapOpen, zoom, pointerLocked, mouseListener,
                            lockElement, lockRequested, joystick, isMobile,
                            windowPlayer, windowKeys, rafPending, held, holdJumps, count>>

\* client.js:176-180: the F key.
KeyDownF ==
    /\ ShootTo("keydownF")
    /\ UNCHANGED <<gameState, gameMap, staticBuffers, dynamicBuffers, keys, mapOpen,
                   zoom, pointerLocked, mouseListener, lockElement, lockRequested,
                   joystick, isMobile, windowPlayer, windowKeys, rafPending, held, holdJumps, count>>

\* The key table's keydown and keyup listeners.
KeyDown(c) ==
    /\ c \notin held
    /\ held' = held \cup {c}
    /\ keys' = [keys EXCEPT ![c].down = TRUE]
    /\ holdJumps' = IF c = "SPACE" THEN 0 ELSE holdJumps
    /\ last' = Did("keydown")
    /\ UNCHANGED <<gameState, gameMap, staticBuffers, dynamicBuffers, player, mapOpen,
                   zoom, pointerLocked, mouseListener, lockElement, lockRequested,
                   joystick, isMobile, windowPlayer, windowKeys, rafPending, count>>

KeyUp(c) ==
    /\ c \in held
    /\ held' = held \ {c}
    /\ keys' = [keys EXCEPT ![c].down = FALSE]
    /\ holdJumps' = IF c = "SPACE" THEN 0 ELSE holdJumps
    /\ last' = Did("keyup")
    /\ UNCHANGED <<gameState, gameMap, staticBuffers, dynamicBuffers, player, mapOpen,
                   zoom, pointerLocked, mouseListener, lockElement, lockRequested,
                   joystick, isMobile, windowPlayer, windowKeys, rafPending, count>>

\* client.js:139-155
SetZoom ==
    /\ \E z \in BOOLEAN : zoom' = z /\ z # zoom
    /\ last' = Did("zoom")
    /\ UNCHANGED <<gameState, gameMap, staticBuffers, dynamicBuffers, player, keys,
                   mapOpen, pointerLocked, mouseListener, lockElement, lockRequested,
                   joystick, isMobile, windowPlayer, windowKeys, rafPending, held, holdJumps, count>>

(***************************************************************************)
(* Pointer capture.                                                        *)
(***************************************************************************)
\* client.js:262-270: el is document.pointerLockElement === overlayCanvas.
\* The result is [pointerLocked, mouseListener].
handleLockChangeEvent_keepListener(el, listening) ==
    IF el
    THEN [pointerLocked |-> TRUE, mouseListener |-> TRUE]
    ELSE [pointerLocked |-> FALSE, mouseListener |-> listening]
handleLockChangeEvent(el, listening) ==
    IF el
    THEN [pointerLocked |-> TRUE, mouseListener |-> TRUE]
    ELSE [pointerLocked |-> FALSE, mouseListener |-> FALSE]

\* The platform grants a pending request and fires pointerlockchange.
LockGrant ==
    /\ lockRequested
    /\ lockRequested' = FALSE
    /\ lockElement' = TRUE
    /\ pointerLocked' = handleLockChangeEvent(TRUE, mouseListener).pointerLocked
    /\ mouseListener' = handleLockChangeEvent(TRUE, mouseListener).mouseListener
    /\ last' = Did("lockGrant")
    /\ UNCHANGED <<gameState, gameMap, staticBuffers, dynamicBuffers, player, keys,
                   mapOpen, zoom, joystick, isMobile, windowPlayer, windowKeys,
                   rafPending, held, holdJumps, count>>

\* The platform refuses a pending request: no pointerlockchange fires.
LockDeny ==
    /\ lockRequested
    /\ lockRequested' = FALSE
    /\ last' = Did("lockDeny")
    /\ UNCHANGED <<gameState, gameMap, staticBuffers, dynamicBuffers, player, keys,
                   mapOpen, zoom, pointerLocked, mouseListener, lockElement, joystick,
                   isMobile, windowPlayer, windowKeys, rafPending, held, holdJumps, count>>

\* The platform revokes the lock (escape) and fires pointerlockchange.
LockRevoke ==
    /\ lockElement
    /\ lockElement' = FALSE
    /\ pointerLocked' = handleLockChangeEvent(FALSE, mouseListener).pointerLocked
    /\ mouseListener' = handleLockChangeEvent(FALSE, mouseListener).mouseListener
    /\ last' = Did("lockRevoke")
    /\ UNCHANGED <<gameState, gameMap, staticBuffers, dynamicBuffers, player, keys,
                   mapOpen, zoom, lockRequested, joystick, isMobile, windowPlayer,
                   windowKeys, rafPending, held, holdJumps, count>>

\* client.js:272-276
handleMouseMoveEvent(p, z, mx, my) ==
    LET sensitivity == IF z THEN ZoomSensitivity ELSE Sensitivity
    IN  [p EXCEPT !.yaw = normalizeRadians(p.yaw + sensitivity * mx),
                  !.pitch = normalizeRadians(p.pitch + sensitivity * my)]

\* Quarter turns at the zoomed sensitivity, half turns at the normal one.
MouseDeltas == {-157, 0, 157}

\* A mousemove event on document: it reaches handleMouseMoveEvent only while
\* that listener is registered.
MouseMove ==
    /\ count.events < MaxEvents
    /\ count' = [count EXCEPT !.events = @ + 1]
    /\ \E mx \in MouseDeltas, my \in MouseDeltas :
        /\ (mx = 0) # (my = 0)
        /\ player' = IF mouseListener
                     THEN handleMouseMoveEvent(player, zoom, mx, my)
                     ELSE player
        /\ last' = [Did("mousemove") EXCEPT !.yaw0 = player.yaw,
                        !.pitch0 = player.pitch, !.dX = mx, !.dY = my]
    /\ UNCHANGED <<gameState, gameMap, staticBuffers, dynamicBuffers, keys, mapOpen,
                   zoom, pointerLocked, mouseListener, lockElement, lockRequested,
                   joystick, isMobile, windowPlayer, windowKeys, rafPending, held, holdJumps>>


(***************************************************************************)
(* The mobile bridge: the window 'message' listener.                       *)
(***************************************************************************)
JoyAngles == {0, 79, 471}
JoyForces == {2, 10}
TouchDeltas == {0, 8}

\* part_001:56-83; force is in tenths, so moveX and moveY are in 1/10000.
handleJoystickMovement(k, js, wp, wk) ==
    IF ~js.active \/ ~wp
    THEN k
    ELSE IF ~wk
    THEN k
    ELSE LET moveX == Cos(js.angle) * js.force
             moveY == Sin(js.angle) * js.force
         IN  [c \in Keys |->
                 IF c = "W" THEN [k[c] EXCEPT !.down = moveY < -JoystickThreshold * 1000]
                 ELSE IF c = "S" THEN [k[c] EXCEPT !.down = moveY > JoystickThreshold * 1000]
                 ELSE IF c = "A" THEN [k[c] EXCEPT !.down = moveX < -JoystickThreshold * 1000]
                 ELSE IF c = "D" THEN [k[c] EXCEPT !.down = moveX > JoystickThreshold * 1000]
                 ELSE k[c]]

\* part_001:88-102
handleCameraMove(p, wp, deltaX, deltaY) ==
    IF ~wp
    THEN p
    ELSE LET maxPitch == HalfPi - PitchMargin
         IN  [p EXCEPT !.yaw = @ + BridgeSensitivity * deltaX,
                       !.pitch = Max(-maxPitch,
                                     Min(maxPitch, @ + BridgeSensitivity * deltaY))]

\* part_001:117-123
handleJump(k, wk) ==
    IF wk THEN [k EXCEPT !["SPACE"].downCount = 1] ELSE k

\* part_001:19-25
EnablePointerLock ==
    /\ count.events < MaxEvents
    /\ count' = [count EXCEPT !.events = @ + 1]
    /\ \E m \in BOOLEAN : isMobile' = m
    /\ last' = Did("enablePointerLock")
    /\ UNCHANGED <<gameState, gameMap, staticBuffers, dynamicBuffers, player, keys,
                   mapOpen, zoom, pointerLocked, mouseListener, lockElement,
                   lockRequested, joystick, windowPlayer, windowKeys, rafPending,
                   held, holdJumps>>

\* part_001:27-32
JoystickMove ==
    /\ count.events < MaxEvents
    /\ count' = [count EXCEPT !.events = @ + 1]
    /\ \E a \in JoyAngles, f \in JoyForces :
        /\ joystick' = [active |-> TRUE, angle |-> a, force |-> f]
        /\ keys' = handleJoystickMovement(keys, joystick', windowPlayer, windowKeys)
    /\ last' = Did("joystickMove")
    /\ UNCHANGED <<gameState, gameMap, staticBuffers, dynamicBuffers, player, mapOpen,
                   zoom, pointerLocked, mouseListener, lockElement, lockRequested,
                   isMobile, windowPlayer, windowKeys, rafPending, held, holdJumps>>

\* part_001:34-37
JoystickEnd ==
    /\ count.events < MaxEvents
    /\ count' = [count EXCEPT !.events = @ + 1]
    /\ joystick' = [joystick EXCEPT !.active = FALSE, !.force = 0]
    /\ last' = Did("joystickEnd")
    /\ UNCHANGED <<gameState, gameMap, staticBuffers, dynamicBuffers, player, keys,
                   mapOpen, zoom, pointerLocked, mouseListener, lockElement,
                   lockRequested, isMobile, windowPlayer, windowKeys, rafPending,
                   held, holdJumps>>

\* part_001:39-41
CameraMove ==
    /\ \E deltaX \in TouchDeltas, deltaY \in TouchDeltas :
        /\ (deltaX = 0) # (deltaY = 0)
        /\ player' = handleCameraMove(player, windowPlayer, deltaX, deltaY)
        /\ InBounds(player')
        /\ last' = [Did("cameraMove") EXCEPT !.yaw0 = player.yaw,
                        !.pitch0 = player.pitch, !.dX = deltaX, !.dY = deltaY]
    /\ count.events < MaxEvents
    /\ count' = [count EXCEPT !.events = @ + 1]
    /\ UNCHANGED <<gameState, gameMap, staticBuffers, dynamicBuffers, keys, mapOpen,
                   zoom, pointerLocked, mouseListener, lockElement, lockRequested,
                   joystick, isMobile, windowPlayer, windowKeys, rafPending, held,
                   holdJumps>>

\* part_001:43-45 and 107-112: window.shoot is a function declaration of
\* client.js, which every build defines on window.
BridgeShoot ==
    /\ count.events < MaxEvents
    /\ count' = [count EXCEPT !.events = @ + 1]
    /\ ShootTo("bridgeShoot")
    /\ UNCHANGED <<gameState, gameMap, staticBuffers, dynamicBuffers, keys, mapOpen,
                   zoom, pointerLocked, mouseListener, lockElement, lockRequested,
                   joystick, isMobile, windowPlayer, windowKeys, rafPending, held,
                   holdJumps>>

\* part_001:47-49
BridgeJump ==
    /\ count.events < MaxEvents
    /\ count' = [count EXCEPT !.events = @ + 1]
    /\ keys' = handleJump(keys, windowKeys)
    /\ holdJumps' = 0
    /\ last' = Did("bridgeJump")
    /\ UNCHANGED <<gameState, gameMap, staticBuffers, dynamicBuffers, player, mapOpen,
                   zoom, pointerLocked, mouseListener, lockElement, lockRequested,
                   joystick, isMobile, windowPlayer, windowKeys, rafPending, held>>

\* part_001:18-50: the switch on message.type.  It has no default case; a
\* payload without a type property reads as the type undefined.
MessageTypes ==
    {"ENABLE_POINTER_LOCK", "JOYSTICK_MOVE", "JOYSTICK_END", "CAMERA_MOVE", "SHOOT", "JUMP"}
OtherTypes == {"PING", "jump", "undefined"}
messageCase_defaultJump(type) == IF type \in MessageTypes THEN type ELSE "JUMP"
messageCase(type) == IF type \in MessageTypes THEN type ELSE "none"

\* No case of the switch matched: the listener returns.
NoCase ==
    /\ last' = Did("unknownMessage")
    /\ UNCHANGED <<gameState, gameMap, staticBuffers, dynamicBuffers, player, keys,
                   mapOpen, zoom, pointerLocked, mouseListener, lockElement,
                   lockRequested, joystick, isMobile, windowPlayer, windowKeys,
                   rafPending, held, holdJumps, count>>

\* part_001:15-51: the listener, for a message of the given type.
OnMessage(type) ==
    CASE messageCase(type) = "ENABLE_POINTER_LOCK" -> EnablePointerLock
      [] messageCase(type) = "JOYSTICK_MOVE" -> JoystickMove
      [] messageCase(type) = "JOYSTICK_END" -> JoystickEnd
      [] messageCase(type) = "CAMERA_MOVE" -> CameraMove
      [] messageCase(type) = "SHOOT" -> BridgeShoot
      [] messageCase(type) = "JUMP" -> BridgeJump
      [] OTHER -> NoCase

UnknownMessage == \E type \in OtherTypes : OnMessage(type)

(***************************************************************************)
(* Specifications.  Spec is the whole client; the others let the           *)
(* environment deliver the events of one part of it.                       *)
(***************************************************************************)
Next ==
    \/ Render
    \/ Update
    \/ InitGame
    \/ Click
    \/ KeyDownF
    \/ \E c \in Keys : KeyDown(c)
    \/ \E c \in Keys : KeyUp(c)
    \/ SetZoom
    \/ LockGrant
    \/ LockDeny
    \/ LockRevoke
    \/ MouseMove
    \/ EnablePointerLock
    \/ JoystickMove
    \/ JoystickEnd
    \/ CameraMove
    \/ BridgeShoot
    \/ BridgeJump
    \/ UnknownMessage
Spec == Init /\ [][Next]_vars

\* A build whose globals the bridge cannot see; the handlers of client.js
\* never read windowPlayer and windowKeys.
InitClient == Loaded(FALSE, FALSE)

\* The snapshot of a started match with the local player alive.
MatchSnapshots == {s \in Snapshots : s.id = 3}

\* Frames, snapshots and match construction.
NextFrame ==
    \/ Render
    \/ Update
    \/ InitGame
SpecFrame == InitClient /\ [][NextFrame]_vars

\* The predictor under the keyboard.
PredictKeys == {"W", "SPACE"}
NextPredict ==
    \/ Render
    \/ UpdateFrom(MatchSnapshots)
    \/ InitGame
    \/ \E c \in PredictKeys : KeyDown(c)
    \/ \E c \in PredictKeys : KeyUp(c)
    \/ BridgeJump
SpecPredict == Init /\ [][NextPredict]_vars

\* Pointer capture and the mouse.
NextPointer ==
    \/ UpdateFrom(MatchSnapshots)
    \/ Click
    \/ LockGrant
    \/ LockDeny
    \/ LockRevoke
    \/ MouseMove
SpecPointer == InitClient /\ [][NextPointer]_vars

\* The joystick of the bridge, the keyboard and the predictor.
BridgeKeys == {"W", "UP"}
NextBridge ==
    \/ Render
    \/ UpdateFrom(MatchSnapshots)
    \/ InitGame
    \/ JoystickMove
    \/ JoystickEnd
    \/ \E c \in BridgeKeys : KeyDown(c)
    \/ \E c \in BridgeKeys : KeyUp(c)
SpecBridge == Init /\ [][NextBridge]_vars

\* The aim: pointer capture, the mouse, the zoom button and the bridge's camera.
NextAim ==
    \/ UpdateFrom(MatchSnapshots)
    \/ Click
    \/ LockGrant
    \/ MouseMove
    \/ SetZoom
    \/ CameraMove
\* The builds as the camera handler tells them apart: it reads window.player only.
InitAim == \E wp \in BOOLEAN : Loaded(wp, FALSE)
SpecAim == InitAim /\ [][NextAim]_vars

\* The bridge: every message the wrapper or another window may post, in a
\* build whose globals the bridge sees.
InitBridge == Loaded(TRUE, TRUE)
NextMessages ==
    \/ \E type \in MessageTypes : OnMessage(type)
    \/ UnknownMessage
SpecMessages == InitBridge /\ [][NextMessages]_vars

\* The triggers: the overlay click, the F key and the bridge's SHOOT, with
\* frames and the snapshots of a lobby, of a match with the local player
\* alive and of one with the local player dead.
FireSnapshots == {s \in Snapshots : s.id \in {1, 3, 4}}
NextFire ==
    \/ Render
    \/ UpdateFrom(FireSnapshots)
    \/ Click
    \/ LockGrant
    \/ KeyDownF
    \/ BridgeShoot
SpecFire == InitClient /\ [][NextFire]_vars

\* Frames that keep coming: render ends by asking for the next animation
\* frame (client.js:239), and the platform calls back each frame it was asked
\* for.  The only key is the map key.
LandingKeys == {"M"}
NextLanding ==
    \/ Render
    \/ UpdateFrom(MatchSnapshots)
    \/ InitGame
    \/ \E c \in LandingKeys : KeyDown(c)
    \/ \E c \in LandingKeys : KeyUp(c)
SpecLanding == InitClient /\ [][NextLanding]_vars /\ WF_vars(Render)

\* The predictor under the four movement intents.
MoveKeys == {"W", "S", "A", "D"}
NextMove ==
    \/ Render
    \/ UpdateFrom(MatchSnapshots)
    \/ InitGame
    \/ \E c \in MoveKeys : KeyDown(c)
    \/ \E c \in MoveKeys : KeyUp(c)
SpecMove == InitClient /\ [][NextMove]_vars

\* The predictor under a movement key and the jump key, with frames of any
\* length from zero up.
NextStep ==
    \/ RenderAt(0..MaxDelta)
    \/ UpdateFrom(MatchSnapshots)
    \/ InitGame
    \/ \E c \in PredictKeys : KeyDown(c)
    \/ \E c \in PredictKeys : KeyUp(c)
SpecStep == InitClient /\ [][NextStep]_vars


(***************************************************************************)
(* Properties.                                                             *)
(***************************************************************************)
FrameRan == last.op = "render"
FrameDrew == FrameRan /\ last.sawMatch /\ ~last.threw
NoIntent(k) == \A c \in Keys : ~k[c].down
GroundLevel == getY(gameMap.seed, player.x, player.z) + PLAYER_HALF_HEIGHT

\* C1: an update stores exactly the delivered snapshot (no field of an earlier
\* one survives), and the lobby check, the entity list and the started flag a
\* frame reads all belong to one delivered snapshot.
C1_SnapshotAtomic ==
    /\ gameState = NoGameState \/ gameState \in Snapshots
    /\ last.op = "update" => gameState.id = last.arg
    /\ FrameDrew =>
        \E s \in Snapshots :
            /\ s.gameId = last.view.gameId
            /\ s.hasEntities = last.view.hasEntities
            /\ s.entities = last.view.entities
            /\ s.started = last.view.started
\* A frame drew the snapshot that replaced the one the match state was built from.
C1_Witness ==
    /\ FrameDrew
    /\ gameMap.loaded
    /\ gameState.seed # gameMap.seed
    /\ last.view.entities = gameState.entities

\* C2: every frame runs to its end: it does not throw, it draws the HUD and it
\* schedules the next frame.
C2_FrameCompletes ==
    /\ rafPending
    /\ FrameRan => ~last.threw /\ last.hud

\* C3: a frame that observes a non-lobby snapshot finds the game map built
\* from that snapshot's seed and both buffer sets constructed.
C3_MatchStateReady ==
    (FrameRan /\ last.sawMatch) =>
        /\ gameMap.loaded
        /\ gameMap.seed = gameState.seed
        /\ staticBuffers.made
        /\ dynamicBuffers.made

\* C7: a frame that renders a match resets the dynamic set, appends the
\* snapshot's entities, then the local entities, then the circle wall exactly
\* when the match is started, then uploads, draws the static set and draws
\* the dynamic set; the set drawn holds what this frame appended and no more.
C7_FrameOrder ==
    FrameDrew =>
        LET log == last.glLog
            n == Len(log)
            body == SubSeq(log, 2, n - 3)
            opaque == (IF gameState.hasEntities THEN gameState.entities ELSE <<>>)
                      \o localEntities
        IN  /\ n >= 4
            /\ log[1] = "reset"
            /\ log[n - 2] = "upload"
            /\ log[n - 1] = "static"
            /\ log[n] = "dynamic"
            /\ body = dynamicBuffers.items
            /\ IF isStarted(gameState)
               THEN /\ Len(body) = Len(opaque) + 1
                    /\ SubSeq(body, 1, Len(opaque)) = opaque
                    /\ body[Len(body)] = "wall"
               ELSE body = opaque
\* A frame drew a started match whose entities differ from an earlier snapshot's.
C7_Witness ==
    /\ FrameDrew
    /\ isStarted(gameState)
    /\ gameState.id = 4
    /\ Len(dynamicBuffers.items) = 2


\* C4: while SPACE stays held the predictor applies the jump impulse in at
\* most one frame, and only in a frame whose ground clamp engaged.
C4_JumpOncePerHold ==
    /\ holdJumps <= 1
    /\ (FrameRan /\ last.jumped) =>
        /\ last.clamped
        /\ player.dy = JUMP_POWER
        /\ player.y = GroundLevel
\* SPACE has been held since its one impulse and the entity has landed again.
C4_Witness ==
    /\ FrameRan
    /\ last.clamped
    /\ ~last.jumped
    /\ holdJumps = 1
    /\ "SPACE" \in held
    /\ keys["SPACE"].downCount >= 2

\* The frame ran the predictor with a map, no intent held and the entity
\* above the ground before it.
FellFreely ==
    /\ FrameRan
    /\ last.mapLoaded
    /\ last.dt > 0
    /\ NoIntent(keys)
    /\ last.y0 > GroundLevel
Landed == player.y = GroundLevel /\ player.dy = 0

\* C5 as stated: with no intent held and the entity above ground, a step
\* either engages the clamp, leaving y at ground level plus the half height
\* and the vertical velocity zero, or strictly lowers y.
C5_FallsOrLands ==
    FellFreely => IF last.clamped THEN Landed ELSE player.y < last.y0

\* C5 amended: the same, for an entity whose vertical velocity before the
\* step is not upward.
C5_FallsOrLandsWhenNotRising ==
    (FellFreely /\ last.dy0 <= 0) => IF last.clamped THEN Landed ELSE player.y < last.y0
\* A free fall from above ended in the clamp.
C5_Witness ==
    /\ FellFreely
    /\ last.dy0 < 0
    /\ last.clamped
\* A free fall from above went on, lower.
C5_WitnessFalling ==
    /\ FellFreely
    /\ ~last.clamped
    /\ player.y < last.y0

\* C6: without a game map a predictor step changes neither the local entity
\* (position, velocity, orientation, pending actions) nor the map-open flag.
C6_NoMapNoOp ==
    [][(last'.op = "render" /\ ~gameMap.loaded) =>
            (player' = player /\ mapOpen' = mapOpen)]_vars
\* A frame ran without a map while keys were held.
C6_Witness ==
    /\ FrameRan
    /\ ~last.mapLoaded
    /\ keys["W"].down
    /\ keys["SPACE"].down
    /\ player = InitPlayer

\* C8: a mouse-move event changes yaw and pitch only while the platform has
\* the pointer locked on the overlay.
C8_MouseOnlyWhenLocked ==
    [][(last'.op = "mousemove" /\ ~lockElement) =>
            (player'.yaw = player.yaw /\ player'.pitch = player.pitch)]_vars
\* The mouse moved after a lock that had turned the entity was revoked.
C8_Witness ==
    /\ last.op = "mousemove"
    /\ ~lockElement
    /\ ~lockRequested
    /\ player.yaw # InitAngle

JoystickKeys == {"W", "S", "A", "D"}

\* C9: after a JOYSTICK_MOVE each movement intent is asserted exactly when
\* the joystick's component toward it exceeds 0.3, and no opposing pair is
\* asserted together.
C9_JoystickIntents ==
    last.op = "joystickMove" =>
        LET moveX == Cos(joystick.angle) * joystick.force
            moveY == Sin(joystick.angle) * joystick.force
        IN  /\ Right(keys) <=> moveX > JoystickThreshold * 1000
            /\ Left(keys) <=> moveX < -JoystickThreshold * 1000
            /\ Backward(keys) <=> moveY > JoystickThreshold * 1000
            /\ Forward(keys) <=> moveY < -JoystickThreshold * 1000
            /\ ~(Forward(keys) /\ Backward(keys))
            /\ ~(Left(keys) /\ Right(keys))

SameTurn(a, b) == (a - b) % TwoPi = 0
\* The last handler was a pointer movement that reached its handler.
PointerMoved ==
    \/ last.op = "mousemove" /\ mouseListener
    \/ last.op = "cameraMove" /\ windowPlayer
\* The local entity before the last pointer movement.
BeforeMove == [player EXCEPT !.yaw = last.yaw0, !.pitch = last.pitch0]
\* What the same movement does from the same aim while zoom is not held.
MovedUnzoomed ==
    IF last.op = "mousemove"
    THEN handleMouseMoveEvent(BeforeMove, FALSE, last.dX, last.dY)
    ELSE handleCameraMove(BeforeMove, windowPlayer, last.dX, last.dY)
Gains == 1..(2 * BridgeSensitivity)
\* The angle to is the angle from turned by delta times gain, up to whole
\* turns; a pitch may instead have stopped at the limit short of the poles.
Turned(to, from, delta, gain) == SameTurn(to, from + delta * gain)
TurnedPitch(to, from, delta, gain) ==
    \/ Turned(to, from, delta, gain)
    \/ /\ Abs(to) = HalfPi - PitchMargin
       /\ Abs(from + delta * gain) >= HalfPi - PitchMargin

\* C11: a pointer movement from either source made while zoom is held turns
\* yaw and pitch by the delta times a sensitivity, and the same movement with
\* zoom not held turns them by the delta times a strictly greater one.
C11_ZoomFinerAim ==
    (PointerMoved /\ zoom) =>
        \E sz \in Gains, sn \in Gains :
            /\ sz < sn
            /\ Turned(player.yaw, last.yaw0, last.dX, sz)
            /\ TurnedPitch(player.pitch, last.pitch0, last.dY, sz)
            /\ Turned(MovedUnzoomed.yaw, last.yaw0, last.dX, sn)
            /\ TurnedPitch(MovedUnzoomed.pitch, last.pitch0, last.dY, sn)

\* C12: whatever orientation updates have run (mouse moves, CAMERA_MOVE
\* messages, shots), yaw and pitch lie in the range of normalizeRadians.
C12_AimNormalized ==
    /\ -Pi <= player.yaw /\ player.yaw <= Pi
    /\ -Pi <= player.pitch /\ player.pitch <= Pi


(***************************************************************************)
(* The bridge's messages.                                                  *)
(***************************************************************************)
\* C13: a message whose type is none of the six the listener knows changes
\* no intent, no joystick state, no orientation and no pending action (nor
\* anything else of the client), and its listener does not throw.
C13_UnknownIgnored ==
    [][UnknownMessage =>
            /\ UNCHANGED <<keys, joystick, player, isMobile, gameState, gameMap,
                           mapOpen, zoom, pointerLocked, rafPending>>
            /\ ~last'.threw]_vars
\* An unknown message arrived while the joystick was deflected, an intent was
\* asserted, the aim had been turned and an action was pending.
C13_Witness ==
    /\ last.op = "unknownMessage"
    /\ joystick.active
    /\ keys["W"].down
    /\ player.yaw # InitAngle
    /\ Len(player.actions) > 0


(***************************************************************************)
(* The pending-action queue.                                               *)
(***************************************************************************)
\* The click that the handler of client.js:46-86 takes as a shot.
ClickFires ==
    /\ gameState # NoGameState
    /\ gameState.gameId # LOBBY_ID
    /\ isCurrentPlayerAlive(gameState)
    /\ getAliveCount(gameState) # 1
    /\ ~mapOpen
    /\ pointerLocked
    /\ isStarted(gameState)
\* The step is a fire trigger: the F key, a SHOOT message, or a click that fires.
FireTrigger ==
    \/ last'.op \in {"keydownF", "bridgeShoot"}
    \/ last'.op = "click" /\ ClickFires
\* The step is a click on the join button in the lobby.
JoinTrigger == last'.op = "click" /\ last'.button = "join"
\* The stored snapshot shows the local player dead.
ShownDead == gameState # NoGameState /\ ~isCurrentPlayerAlive(gameState)
\* The step appends one entity of the type, with the position at the trigger.
AppendsOne(type) ==
    /\ Len(player'.actions) = Len(player.actions) + 1
    /\ SubSeq(player'.actions, 1, Len(player.actions)) = player.actions
    /\ LET e == player'.actions[Len(player'.actions)]
       IN  /\ e.type = type
           /\ e.x = player.x /\ e.y = player.y /\ e.z = player.z
\* The step leaves every queued entity in its place.
KeepsQueue ==
    /\ Len(player'.actions) >= Len(player.actions)
    /\ SubSeq(player'.actions, 1, Len(player.actions)) = player.actions

\* C14 as stated: every fire trigger and every join trigger appends exactly
\* one SHOOT or JOIN entity at the tail, with the position at the trigger and
\* the queued entities untouched, and no step removes or clears an entity.
C14_TriggerAppends ==
    [][/\ FireTrigger => AppendsOne("SHOOT")
       /\ JoinTrigger => AppendsOne("JOIN")
       /\ KeepsQueue]_vars

\* C14 amended: the same for the fire triggers that do not find the local
\* player dead in the stored snapshot, and for every step but the page
\* reload of the exit click.
C14_LiveTriggerAppends ==
    [][/\ (FireTrigger /\ ~ShownDead) => AppendsOne("SHOOT")
       /\ JoinTrigger => AppendsOne("JOIN")
       /\ last'.op # "reload" => KeepsQueue]_vars
\* A click with the pointer locked added a SHOOT behind the JOIN of an
\* earlier click in the lobby.
C14_Witness ==
    /\ last.op = "click"
    /\ pointerLocked
    /\ Len(player.actions) = 2
    /\ player.actions[1].type = "JOIN"
    /\ player.actions[2].type = "SHOOT"
    /\ player.actions[2].y = player.y


(***************************************************************************)
(* Who writes what.                                                        *)
(***************************************************************************)
\* The names the input callbacks leave in last: keyboard, mouse and bridge.
InputCallbacks ==
    {"keydown", "keyup", "keydownF", "click", "zoom", "mousemove", "enablePointerLock",
     "joystickMove", "joystickEnd", "cameraMove", "bridgeShoot", "bridgeJump",
     "unknownMessage"}
Pose(p) == <<p.x, p.y, p.z, p.dx, p.dy, p.dz>>

\* C15: but for a page reload, a step that changes the stored snapshot is the
\* update callback, a step that changes the local entity's position or
\* velocity is the frame's prediction step, and a step that changes the
\* intent table is an input callback.
C15_SingleWriter ==
    [][last'.op # "reload" =>
            /\ gameState' # gameState => last'.op = "update"
            /\ Pose(player') # Pose(player) => last'.op = "render"
            /\ keys' # keys => last'.op \in InputCallbacks]_vars


(***************************************************************************)
(* Landing.                                                                *)
(***************************************************************************)
NoMoveIntent(k) ==
    ~Forward(k) /\ ~Backward(k) /\ ~Left(k) /\ ~Right(k) /\ ~k["SPACE"].down
\* Frames are running with a map and no movement or jump intent is held.
Falling == gameMap.loaded /\ rafPending /\ NoMoveIntent(keys)

\* C16: once frames run with a map and no movement or jump intent held, a
\* frame comes in which the ground clamp engages, and from it on y stays at
\* the ground height plus the half height.
C16_Lands ==
    Falling ~> (FrameRan /\ last.clamped /\ [](player.y = GroundLevel))
\* The entity came down from the height it starts at and the clamp engaged.
C16_Witness ==
    /\ FrameRan
    /\ last.clamped
    /\ last.y0 > GroundLevel
    /\ last.dy0 < 0
    /\ last.dt > 0
    /\ NoMoveIntent(keys)
    /\ player.y = GroundLevel

(***************************************************************************)
(* The predictor under movement intents.                                   *)
(***************************************************************************)
\* The frame ran the predictor.
Stepped == FrameRan /\ last.mapLoaded

\* C17: a predictor step lowers the vertical velocity by exactly gravity
\* times the delta time before the ground check, whatever movement intents
\* are held; seen in the steps whose clamp does not engage.
C17_GravityOnly ==
    (Stepped /\ ~last.clamped) => player.dy = last.dy0 - GRAVITY * last.dt

\* C18: after a predictor step the horizontal velocity is zero when no
\* movement intent is held, and otherwise that of the held intent that comes
\* last in the order forward, backward, left, right, along the yaw-rotated
\* axis at RUN_SPEED.
C18_LastIntentWins ==
    Stepped =>
        LET t == rotateY(player.yaw)
            ahead == Scaled(RUN_SPEED * t.z)
            aside == Scaled(RUN_SPEED * t.x)
        IN  IF Right(keys) THEN player.dx = ahead /\ player.dz = -aside
            ELSE IF Left(keys) THEN player.dx = -ahead /\ player.dz = aside
            ELSE IF Backward(keys) THEN player.dx = -aside /\ player.dz = -ahead
            ELSE IF Forward(keys) THEN player.dx = aside /\ player.dz = ahead
            ELSE player.dx = 0 /\ player.dz = 0
\* A step ran with forward and backward both held, and the entity moves backward.
C18_Witness ==
    /\ Stepped
    /\ Forward(keys) /\ Backward(keys)
    /\ ~Left(keys) /\ ~Right(keys)
    /\ player.dz < 0

\* C20: after a predictor step, whatever the delta time and the intents, the
\* entity is not below the ground height at its new place plus the half height.
C20_NeverBelowGround ==
    Stepped => player.y >= GroundLevel
\* A step carried the entity on the ground to a place where the ground is higher.
C20_Witness ==
    /\ Stepped
    /\ last.clamped
    /\ player.y = GroundLevel
    /\ player.y > last.y0
    /\ ~keys["SPACE"].down
\* A step of zero length ran with a movement intent held.
C20_WitnessStill ==
    /\ Stepped
    /\ last.dt = 0
    /\ Forward(keys)
    /\ player.y >= GroundLevel

(***************************************************************************)
(* Shots.                                                                  *)
(***************************************************************************)
\* C19: a step appends a SHOOT entity only when a snapshot is stored, its
\* match is started and the local player is alive in it.
C19_ShootOnlyInMatch ==
    [][(/\ Len(player'.actions) > Len(player.actions)
        /\ player'.actions[Len(player'.actions)].type = "SHOOT")
            => /\ gameState # NoGameState
               /\ isStarted(gameState)
               /\ isCurrentPlayerAlive(gameState)]_vars

(***************************************************************************)
(* The bridge's jump.                                                      *)
(***************************************************************************)
\* The step is the first frame after a JUMP message that reached the key
\* table, it ran the predictor, and its ground clamp engaged.
GroundedAfterJump ==
    /\ last.op = "bridgeJump"
    /\ windowKeys
    /\ last'.op = "render"
    /\ last'.mapLoaded
    /\ last'.clamped

\* C21: a JUMP message acts as one fresh press of the jump key: the next
\* predictor step, if the entity is on the ground in it, applies the jump
\* impulse, and no second impulse follows until another JUMP message or key
\* press.
C21_BridgeJumpOnce ==
    [][/\ GroundedAfterJump => (last'.jumped /\ player'.dy = JUMP_POWER)
       /\ holdJumps' <= 1]_vars

====
